---- MODULE Spec2Model ----
(***************************************************************************)
(* USDAFruitAndVegetablesAlgorithm (src/USDAFruitAndVegetablesAlgorithm.py)*)
(* as a state machine.  The framework calls initialize once, then on_data  *)
(* once per time step in chronological order, then on_end_of_algorithm.    *)
(*                                                                         *)
(* Time is counted in half days, so that `.days` (whole days of a          *)
(* timedelta) is a real truncation.  Money is counted in whole units.      *)
(* An optional field is <<>> when it is None and <<v>> when it holds v.    *)
(* An output line is the record of what the f-string prints: the sink      *)
(* (log or debug), the kind of line, the symbol it is about, the form and  *)
(* unit strings and the numbers it formats.                                *)
(***************************************************************************)
EXTENDS Integers, Sequences, FiniteSets, TLC

VARIABLES
    phase,              \* where the framework is in the algorithm's life cycle
    time,               \* self.time, in half days since the start date
    slice,              \* the Slice of the current time step
    apple_symbol,       \* self.apple_symbol
    strawberry_symbol,  \* self.strawberry_symbol
    broccoli_symbol,    \* self.broccoli_symbol
    last_data_time,     \* self.last_data_time: symbol -> time
    cash,               \* self.portfolio.total_portfolio_value (no order is ever placed)
    out,                \* the lines the handler of the current step has emitted
    err,                \* the exception that ended the handler, or NoError
    calls               \* the helpers on_data has called in the current step

vars == <<phase, time, slice, apple_symbol, strawberry_symbol, broccoli_symbol,
          last_data_time, cash, out, err, calls>>

\* the script's own state: what a handler can mutate
script == <<apple_symbol, strawberry_symbol, broccoli_symbol, last_data_time>>

----------------------------------------------------------------------------
(* Bounds of the model *)

MaxPoints == 2      \* longest DataCollection drawn as an input
MaxTime == 3        \* last time step (in half days)

(* Program constants *)

HalfDaysPerDay == 2
InitialCash == 100000
HistoryLookback == 30

----------------------------------------------------------------------------
(* Data model *)

None == <<>>
EmptyMap == [s \in {} |-> 0]
Some(v) == <<v>>
Get(opt) == opt[1]

NoHandle == "None"
NoError == "NoError"
TypeError == "TypeError"

Apples == "Apples"
Strawberries == "Strawberries"
Broccoli == "Broccoli"
Symbols == {Apples, Strawberries, Broccoli}

Point(form, ppce, arp, pyf, ces, value) ==
    [form |-> form,
     price_per_cup_equivalent |-> ppce,
     average_retail_price |-> arp,
     unit |-> "per pound",
     preparation_yield_factor |-> pyf,
     cup_equivalent_size |-> ces,
     cup_equivalent_unit |-> "pounds",
     value |-> value]

Line(sink, kind, sym, form, unit, args) ==
    [sink |-> sink, kind |-> kind, sym |-> sym, form |-> form, unit |-> unit,
     args |-> args]

\* slice.contains_key(symbol)
ContainsKey(sl, symbol) == symbol \in DOMAIN sl

\* a gap counted in the unit of the clock instead of whole days
Days_Untruncated(delta) == delta

\* (t1 - t0).days: the whole days of a timedelta
Days(delta) == delta \div HalfDaysPerDay

\* a test that finds the text only at the start of the string
IsSubstring_PrefixOnly(sub, s) ==
    Len(sub) <= Len(s) /\ SubSeq(s, 1, Len(sub)) = sub

\* "Juice" in form: substring test, case-sensitive
IsSubstring(sub, s) ==
    \E i \in 1..(Len(s) - Len(sub) + 1) : SubSeq(s, i, i + Len(sub) - 1) = sub

----------------------------------------------------------------------------
(* The helpers of on_data.  Each yields the lines it emits and the exception *)
(* that ended it (NoError when it returned).                                 *)

Returned(lines) == [out |-> lines, err |-> NoError]
Raised(lines, e) == [out |-> lines, err |-> e]

\* f"{x:.2f}" of an optional number: None has no such format, Python raises
\* TypeError (unsupported format string passed to NoneType.__format__)
CanFormat(opt) == opt # None

\* the loop of _handle_sparse_data: one log line per point
RECURSIVE LogPrices(_, _)
LogPrices(name, data) ==
    IF data = <<>> THEN Returned(<<>>)
    ELSE LET d == Head(data) IN
         IF ~CanFormat(d.price_per_cup_equivalent) THEN Raised(<<>>, TypeError)
         ELSE LET rest == LogPrices(name, Tail(data))
                  line == Line("log", "price", name, d.form, "",
                               <<Get(d.price_per_cup_equivalent)>>)
              IN  [out |-> <<line>> \o rest.out, err |-> rest.err]

\* the gap line of _handle_sparse_data, when the symbol was seen before
GapLines(ldt, t, symbol, name) ==
    IF symbol \in DOMAIN ldt
    THEN <<Line("debug", "gap", name, "", "", <<Days(t - ldt[symbol])>>)>>
    ELSE <<>>

\* a map that keeps the first time a symbol was seen
Seen_KeepFirst(ldt, t, symbol) ==
    [s \in DOMAIN ldt \cup {symbol} |-> IF s \in DOMAIN ldt THEN ldt[s] ELSE t]

\* self.last_data_time[symbol] = self.time
Seen(ldt, t, symbol) ==
    [s \in DOMAIN ldt \cup {symbol} |-> IF s = symbol THEN t ELSE ldt[s]]

\* _handle_sparse_data without the presence check on the slice
HandleSparseData_NoPresenceCheck(ldt, t, sl, symbol, name) ==
    LET prices == IF ContainsKey(sl, symbol) THEN LogPrices(name, sl[symbol])
                  ELSE Returned(<<>>)
    IN  [out |-> GapLines(ldt, t, symbol, name) \o prices.out,
         err |-> prices.err,
         last_data_time |-> Seen(ldt, t, symbol)]

\* _handle_sparse_data(slice, symbol, name), with self.time = t and
\* self.last_data_time = ldt; also yields the new self.last_data_time
HandleSparseData(ldt, t, sl, symbol, name) ==
    IF ContainsKey(sl, symbol)
    THEN LET prices == LogPrices(name, sl[symbol]) IN
         [out |-> GapLines(ldt, t, symbol, name) \o prices.out,
          err |-> prices.err,
          last_data_time |-> Seen(ldt, t, symbol)]
    ELSE [out |-> <<>>, err |-> NoError, last_data_time |-> ldt]

\* the lines of _log_full_properties for one point
PropertyLines(symbol, d) ==
    <<Line("debug", "header", symbol, d.form, "", <<>>)>>
    \o (IF d.average_retail_price # None
        THEN <<Line("debug", "retail", symbol, d.form, d.unit,
                    <<Get(d.average_retail_price)>>)>>
        ELSE <<>>)
    \o (IF d.preparation_yield_factor # None
        THEN <<Line("debug", "yield", symbol, d.form, "",
                    <<Get(d.preparation_yield_factor)>>)>>
        ELSE <<>>)
    \o (IF d.cup_equivalent_size # None
        THEN <<Line("debug", "cup", symbol, d.form, d.cup_equivalent_unit,
                    <<Get(d.cup_equivalent_size)>>)>>
        ELSE <<>>)
    \o <<Line("debug", "percup", symbol, d.form, "", <<d.value>>)>>

RECURSIVE AllPropertyLines(_, _)
AllPropertyLines(symbol, data) ==
    IF data = <<>> THEN <<>>
    ELSE PropertyLines(symbol, Head(data)) \o AllPropertyLines(symbol, Tail(data))

\* _log_full_properties(slice, symbol)
LogFullProperties(sl, symbol) ==
    IF ContainsKey(sl, symbol)
    THEN Returned(AllPropertyLines(symbol, sl[symbol]))
    ELSE Returned(<<>>)

\* the scan of _compare_fresh_vs_frozen: a later point of a form overwrites
\* an earlier one
RECURSIVE ScanPrices(_)
ScanPrices(data) ==
    IF data = <<>> THEN [fresh_price |-> None, frozen_price |-> None]
    ELSE LET before == ScanPrices(SubSeq(data, 1, Len(data) - 1))
             d == data[Len(data)]
         IN  IF d.form = "Fresh" THEN [before EXCEPT !.fresh_price = Some(d.value)]
             ELSE IF d.form = "Frozen"
                  THEN [before EXCEPT !.frozen_price = Some(d.value)]
                  ELSE before

\* Python's truth value of an optional number: None and 0 are false
Truthy(opt) == opt # None /\ Get(opt) # 0

\* the difference taken relative to the fresh price
DiffPct_OfFresh(fresh, frozen) ==
    LET n == (fresh - frozen) * 1000
        a == IF fresh < 0 THEN -fresh ELSE fresh
        m == IF fresh < 0 THEN -n ELSE n
    IN  (2 * m + a) \div (2 * a)

\* ((fresh - frozen) / frozen) * 100 formatted with +.1f: signed tenths of a
\* percent, rounded to the nearest
DiffPct(fresh, frozen) ==
    LET n == (fresh - frozen) * 1000
        a == IF frozen < 0 THEN -frozen ELSE frozen
        m == IF frozen < 0 THEN -n ELSE n
    IN  (2 * m + a) \div (2 * a)

\* _compare_fresh_vs_frozen(slice, symbol)
CompareFreshVsFrozen(sl, symbol) ==
    IF ContainsKey(sl, symbol)
    THEN LET p == ScanPrices(sl[symbol]) IN
         IF Truthy(p.fresh_price) /\ Truthy(p.frozen_price)
         THEN Returned(<<Line("debug", "compare", symbol, "", "",
                              <<Get(p.fresh_price), Get(p.frozen_price),
                                DiffPct(Get(p.fresh_price), Get(p.frozen_price))>>)>>)
         ELSE Returned(<<>>)
    ELSE Returned(<<>>)

\* [d for d in collection.data if d.form == "Fresh"]
FreshData(data) == SelectSeq(data, LAMBDA d : d.form = "Fresh")

\* [d for d in collection.data if "Juice" in d.form]
JuiceData(data) == SelectSeq(data, LAMBDA d : IsSubstring("Juice", d.form))

\* a loop of _filter_by_form: one debug line per item of a derived sequence
RECURSIVE FilterLines(_, _, _)
FilterLines(kind, symbol, items) ==
    IF items = <<>> THEN Returned(<<>>)
    ELSE LET d == Head(items) IN
         IF ~CanFormat(d.price_per_cup_equivalent) THEN Raised(<<>>, TypeError)
         ELSE LET rest == FilterLines(kind, symbol, Tail(items))
                  line == Line("debug", kind, symbol, d.form, "",
                               <<Get(d.price_per_cup_equivalent)>>)
              IN  [out |-> <<line>> \o rest.out, err |-> rest.err]

\* a juice part that reports the count of an empty sequence too
JuiceLines_AlwaysCount(symbol, juice_data) ==
    LET items == FilterLines("juice", symbol, juice_data) IN
    [out |-> <<Line("debug", "count", symbol, "", "", <<Len(juice_data)>>)>>
             \o items.out,
     err |-> items.err]

\* the juice part of _filter_by_form: the count, then the items
JuiceLines(symbol, juice_data) ==
    IF juice_data # <<>>
    THEN LET items == FilterLines("juice", symbol, juice_data) IN
         [out |-> <<Line("debug", "count", symbol, "", "", <<Len(juice_data)>>)>>
                  \o items.out,
          err |-> items.err]
    ELSE Returned(<<>>)

\* _filter_by_form(slice, symbol)
FilterByForm(sl, symbol) ==
    IF ContainsKey(sl, symbol)
    THEN LET fresh == FilterLines("fresh", symbol, FreshData(sl[symbol])) IN
         IF fresh.err # NoError THEN fresh
         ELSE LET juice == JuiceLines(symbol, JuiceData(sl[symbol])) IN
              [out |-> fresh.out \o juice.out, err |-> juice.err]
    ELSE Returned(<<>>)

----------------------------------------------------------------------------
(* on_data: the four helpers in the order of the code; an exception in one *)
(* ends on_data, the later helpers are not called.                         *)

Call(name, r) == [name |-> name, out |-> r.out, err |-> r.err]

RECURSIVE RunCalls(_)
RunCalls(cs) ==
    IF cs = <<>> THEN [out |-> <<>>, err |-> NoError, calls |-> <<>>]
    ELSE LET c == Head(cs) IN
         IF c.err # NoError
         THEN [out |-> c.out, err |-> c.err, calls |-> <<c.name>>]
         ELSE LET rest == RunCalls(Tail(cs)) IN
              [out |-> c.out \o rest.out, err |-> rest.err,
               calls |-> <<c.name>> \o rest.calls]

\* the first call of on_data, the one that writes self.last_data_time
SparseCall ==
    HandleSparseData(last_data_time, time, slice, strawberry_symbol, "Strawberries")

\* on_data with the comparison moved before the property log
OnDataCalls_CompareFirst ==
    <<Call("_handle_sparse_data", SparseCall),
      Call("_compare_fresh_vs_frozen", CompareFreshVsFrozen(slice, strawberry_symbol)),
      Call("_log_full_properties", LogFullProperties(slice, broccoli_symbol)),
      Call("_filter_by_form", FilterByForm(slice, apple_symbol))>>

\* the body of on_data, on the current slice
OnDataCalls ==
    <<Call("_handle_sparse_data", SparseCall),
      Call("_log_full_properties", LogFullProperties(slice, broccoli_symbol)),
      Call("_compare_fresh_vs_frozen", CompareFreshVsFrozen(slice, strawberry_symbol)),
      Call("_filter_by_form", FilterByForm(slice, apple_symbol))>>

----------------------------------------------------------------------------
(* Inputs *)

BoundedSeq(S, n) == UNION {[1..k -> S] : k \in 0..n}

Priced(form, value) == Point(form, Some(1), None, None, None, value)
Unpriced(form, value) == Point(form, None, None, None, None, value)

StrawberryPoints ==
    {Priced(f, v) : f \in {"Fresh", "Frozen"}, v \in {0, 2, 3, 4}}
    \cup {Unpriced(f, 2) : f \in {"Fresh", "Frozen"}}
    \cup {Priced("Dried", 2)}

BroccoliPoints ==
    {Point("Florets", Some(1), arp, pyf, ces, 1) :
        arp \in {None, Some(2)}, pyf \in {None, Some(610)}, ces \in {None, Some(3)}}

AppleForms ==
    {"Fresh", "Fresh-cut", "Frozen", "Apple Juice", "Juice Concentrate", "apple juice"}

ApplePoints ==
    {Priced(f, 1) : f \in AppleForms} \cup {Unpriced(f, 1) : f \in {"Fresh", "Apple Juice"}}

\* the forms of the example of the specification, section 8, property 5
ExampleForms == <<"Fresh", "Frozen", "Apple Juice", "Juice Concentrate">>
ExampleCollection == [i \in 1..Len(ExampleForms) |-> Priced(ExampleForms[i], 1)]

Collections ==
    (Strawberries :> BoundedSeq(StrawberryPoints, MaxPoints))
    @@ (Broccoli :> BoundedSeq(BroccoliPoints, MaxPoints))
    @@ (Apples :> (BoundedSeq(ApplePoints, MaxPoints) \cup {ExampleCollection}))

Defaults ==
    (Strawberries :> <<Priced("Fresh", 4), Priced("Frozen", 2)>>)
    @@ (Broccoli :> <<Point("Florets", Some(1), Some(2), Some(610), Some(3), 1)>>)
    @@ (Apples :> <<Priced("Fresh", 1), Priced("Apple Juice", 1)>>)

\* a slice holds any subset of the symbols; one of them ranges over all its
\* collections while the others hold their default collection
Slices ==
    UNION {{[sym \in present |-> IF sym = focus THEN c ELSE Defaults[sym]] :
                c \in Collections[focus]} :
           focus \in Symbols, present \in SUBSET Symbols}

----------------------------------------------------------------------------
(* The state machine *)

Init ==
    /\ phase = "constructed"
    /\ time = 0
    /\ slice = EmptyMap
    /\ apple_symbol = NoHandle
    /\ strawberry_symbol = NoHandle
    /\ broccoli_symbol = NoHandle
    /\ last_data_time = EmptyMap
    /\ cash = 0
    /\ out = <<>>
    /\ err = NoError
    /\ calls = <<>>

\* initialize(): the history request returns n points
Initialize ==
    /\ phase = "constructed"
    /\ \E n \in {0, HistoryLookback} :
           out' = <<Line("debug", "history", "", "", "", <<n>>)>>
    /\ phase' = "idle"
    /\ cash' = InitialCash
    /\ apple_symbol' = Apples
    /\ strawberry_symbol' = Strawberries
    /\ broccoli_symbol' = Broccoli
    /\ last_data_time' = EmptyMap
    /\ UNCHANGED <<time, slice, err, calls>>

\* the framework moves to a later time step and produces its Slice
Deliver ==
    /\ phase = "idle"
    /\ \E t \in (time + 1)..MaxTime : time' = t
    /\ \E sl \in Slices : slice' = sl
    /\ phase' = "delivered"
    /\ out' = <<>>
    /\ UNCHANGED <<script, cash, err, calls>>

\* on_data(slice)
OnData ==
    /\ phase = "delivered"
    /\ LET run == RunCalls(OnDataCalls) IN
       /\ out' = run.out
       /\ err' = run.err
       /\ calls' = run.calls
       /\ phase' = IF run.err = NoError THEN "processed" ELSE "failed"
    /\ last_data_time' = SparseCall.last_data_time
    /\ UNCHANGED <<time, slice, apple_symbol, strawberry_symbol, broccoli_symbol, cash>>

\* the framework discards the Slice of a step that was processed
EndStep ==
    /\ phase = "processed"
    /\ phase' = "idle"
    /\ slice' = EmptyMap
    /\ out' = <<>>
    /\ calls' = <<>>
    /\ UNCHANGED <<time, script, cash, err>>

\* an end-of-algorithm handler that clears the gap map
OnEndOfAlgorithm_ClearsMap ==
    /\ phase = "idle"
    /\ phase' = "ended"
    /\ out' = <<Line("debug", "summary", "", "", "", <<cash>>)>>
    /\ last_data_time' = EmptyMap
    /\ UNCHANGED <<time, slice, apple_symbol, strawberry_symbol, broccoli_symbol,
                   cash, err, calls>>

\* on_end_of_algorithm()
OnEndOfAlgorithm ==
    /\ phase = "idle"
    /\ phase' = "ended"
    /\ out' = <<Line("debug", "summary", "", "", "", <<cash>>)>>
    /\ UNCHANGED <<time, slice, script, cash, err, calls>>

Next == Initialize \/ Deliver \/ OnData \/ EndStep \/ OnEndOfAlgorithm

Spec == Init /\ [][Next]_vars

----------------------------------------------------------------------------
(* Vocabulary of the properties *)

\* on_data has acted on the slice of the current step
Processed == phase \in {"processed", "failed"}

\* the step the framework takes when it calls on_data
OnDataStep == phase = "delivered" /\ phase' \in {"processed", "failed"}

Called(helper) == \E i \in DOMAIN calls : calls[i] = helper

OfKind(lines, kinds) == SelectSeq(lines, LAMBDA l : l.kind \in kinds)

\* what a line of a loop shows of its point
Shown(lines) == [i \in DOMAIN lines |-> <<lines[i].form, lines[i].args>>]

\* the points of data whose optional field f is set, as the lines of a loop
\* that omits the others would show them
ShownOmitting(data, f) ==
    LET set == SelectSeq(data, LAMBDA d : d[f] # None)
    IN  [i \in DOMAIN set |-> <<set[i].form, <<Get(set[i][f])>>>>]

\* d is the number of whole days in delta
WholeDays(d, delta) ==
    d * HalfDaysPerDay <= delta /\ delta < (d + 1) * HalfDaysPerDay

----------------------------------------------------------------------------
\* C1: after an on_data step, no emitted line references a subscribed symbol
\* that has no entry in the slice of that step.
C1_NoLineForAbsentSymbol ==
    Processed =>
        \A S \in Symbols :
            S \notin DOMAIN slice => \A i \in DOMAIN out : out[i].sym # S

\* C1 witness: a step whose slice lacks Strawberries, seen on an earlier step,
\* while the symbols that are present produce lines
C1_Witness ==
    /\ phase = "processed"
    /\ Strawberries \notin DOMAIN slice
    /\ Strawberries \in DOMAIN last_data_time
    /\ out # <<>>

\* C2: in every helper on_data called, the line of a null optional field is
\* omitted and nothing else is: the lines that format a field are exactly those
\* of the points whose field is set, in order.
C2_NullFieldLineOmitted ==
    Processed =>
        /\ (Called("_handle_sparse_data") /\ Strawberries \in DOMAIN slice) =>
               Shown(OfKind(out, {"price"}))
                   = ShownOmitting(slice[Strawberries], "price_per_cup_equivalent")
        /\ (Called("_log_full_properties") /\ Broccoli \in DOMAIN slice) =>
               /\ Shown(OfKind(out, {"retail"}))
                      = ShownOmitting(slice[Broccoli], "average_retail_price")
               /\ Shown(OfKind(out, {"yield"}))
                      = ShownOmitting(slice[Broccoli], "preparation_yield_factor")
               /\ Shown(OfKind(out, {"cup"}))
                      = ShownOmitting(slice[Broccoli], "cup_equivalent_size")
        /\ (Called("_filter_by_form") /\ Apples \in DOMAIN slice) =>
               /\ Shown(OfKind(out, {"fresh"}))
                      = ShownOmitting(FreshData(slice[Apples]),
                                      "price_per_cup_equivalent")
               /\ Shown(OfKind(out, {"juice"}))
                      = ShownOmitting(JuiceData(slice[Apples]),
                                      "price_per_cup_equivalent")

\* C3: on a step whose slice contains S, exactly one gap line is emitted for S
\* when last_seen[S] exists, and its value is the whole days since then; no gap
\* line is emitted for S when S has no last_seen entry.
C3_GapReport ==
    [][OnDataStep =>
          \A S \in DOMAIN slice :
              LET gaps == SelectSeq(out', LAMBDA l : l.kind = "gap" /\ l.sym = S)
              IN  IF S \in DOMAIN last_data_time
                  THEN /\ Len(gaps) = 1
                       /\ Len(gaps[1].args) = 1
                       /\ WholeDays(gaps[1].args[1], time - last_data_time[S])
                  ELSE gaps = <<>>]_vars

\* C3 witness: a gap of one half day is reported as no whole day
C3_Witness ==
    /\ Processed
    /\ time = 2
    /\ \E i \in DOMAIN out : out[i].kind = "gap" /\ out[i].args = <<0>>
    /\ \E i \in DOMAIN out : out[i].kind = "price"

\* C7: on_data never raises, whatever the slice holds.
C7_OnDataNeverRaises == err = NoError /\ phase # "failed"

----------------------------------------------------------------------------
(* Fresh against Frozen *)

Abs(x) == IF x < 0 THEN -x ELSE x

\* p is (fresh - frozen) / frozen * 100 in tenths of a percent, to the nearest
IsDiffPct(p, fresh, frozen) ==
    frozen # 0 /\ 2 * Abs(p * frozen - 1000 * (fresh - frozen)) <= Abs(frozen)

Indices(data, form) == {i \in DOMAIN data : data[i].form = form}

\* the value of the last point of the form, if there is one
LastOf(data, form) ==
    LET idx == Indices(data, form)
    IN  IF idx = {} THEN None
        ELSE Some(data[CHOOSE i \in idx : \A j \in idx : j <= i].value)

CompareRan == Processed /\ Called("_compare_fresh_vs_frozen")

\* C4 as stated: whenever _compare_fresh_vs_frozen runs on a collection, a
\* comparison line is emitted if and only if the collection has a Fresh point
\* and a Frozen point (their values are numbers, never null), and the line
\* reports (fresh - frozen) / frozen * 100.  Taken where no Frozen value is
\* zero, so that the percentage the claim names exists.
C4_CompareIffBothPresent ==
    (/\ CompareRan
     /\ Strawberries \in DOMAIN slice
     /\ \A j \in Indices(slice[Strawberries], "Frozen") :
            slice[Strawberries][j].value # 0) =>
        LET data == slice[Strawberries]
            cmp == OfKind(out, {"compare"})
        IN  /\ (cmp # <<>>) <=>
                   (Indices(data, "Fresh") # {} /\ Indices(data, "Frozen") # {})
            /\ \A k \in DOMAIN cmp :
                   \E i \in Indices(data, "Fresh"), j \in Indices(data, "Frozen") :
                       /\ cmp[k].args[1] = data[i].value
                       /\ cmp[k].args[2] = data[j].value
                       /\ IsDiffPct(cmp[k].args[3], data[i].value, data[j].value)

\* C4 amended: whenever _compare_fresh_vs_frozen runs on the Strawberries
\* collection, exactly one comparison line is emitted if the collection has a
\* Fresh and a Frozen point and the values of the last of each are both
\* non-zero, and none otherwise; the line reports the two values and
\* (fresh - frozen) / frozen * 100.
C4_CompareIffBothNonZero ==
    (CompareRan /\ Strawberries \in DOMAIN slice) =>
        LET data == slice[Strawberries]
            cmp == OfKind(out, {"compare"})
            fresh == LastOf(data, "Fresh")
            frozen == LastOf(data, "Frozen")
        IN  IF fresh # None /\ frozen # None /\ Get(fresh) # 0 /\ Get(frozen) # 0
            THEN /\ Len(cmp) = 1
                 /\ cmp[1].sym = Strawberries
                 /\ Len(cmp[1].args) = 3
                 /\ cmp[1].args[1] = Get(fresh)
                 /\ cmp[1].args[2] = Get(frozen)
                 /\ IsDiffPct(cmp[1].args[3], Get(fresh), Get(frozen))
            ELSE cmp = <<>>

\* C4 witness: Fresh 4 against Frozen 2 is reported as +100.0 %
C4_Witness ==
    /\ CompareRan
    /\ \E i \in DOMAIN out : out[i].kind = "compare" /\ out[i].args = <<4, 2, 1000>>

----------------------------------------------------------------------------
(* Form filtering *)

\* the text occurs in the string: the string is a prefix, the text, a suffix
ContainsText(str, text) ==
    \E i \in 0..Len(str) :
        /\ i + Len(text) <= Len(str)
        /\ str = SubSeq(str, 1, i) \o text \o SubSeq(str, i + Len(text) + 1, Len(str))

\* the points of data at the indices idx, in the order of data
Picked(data, idx) ==
    [k \in 1..Cardinality(idx) |->
        data[CHOOSE i \in idx : Cardinality({j \in idx : j <= i}) = k]]

FreshIndices(data) == {i \in DOMAIN data : data[i].form = "Fresh"}
JuiceIndices(data) == {i \in DOMAIN data : ContainsText(data[i].form, "Juice")}

Forms(data) == [i \in DOMAIN data |-> data[i].form]

FilterRan == Processed /\ Called("_filter_by_form")

\* C5: for the Apples collection of a slice, the Fresh sequence is exactly the
\* points whose form is "Fresh" and the Juice sequence exactly the points whose
\* form contains "Juice", both in the order of the collection (and a filter
\* that returns shows them so); the forms Fresh, Frozen, Apple Juice, Juice
\* Concentrate give 1 Fresh item and 2 Juice items.
C5_FormFiltering ==
    Apples \in DOMAIN slice =>
        LET data == slice[Apples] IN
        /\ FreshData(data) = Picked(data, FreshIndices(data))
        /\ JuiceData(data) = Picked(data, JuiceIndices(data))
        /\ Forms(data) = ExampleForms =>
               Len(FreshData(data)) = 1 /\ Len(JuiceData(data)) = 2
        /\ (FilterRan /\ err = NoError) =>
               /\ Forms(OfKind(out, {"fresh"}))
                      = Forms(Picked(data, FreshIndices(data)))
               /\ Forms(OfKind(out, {"juice"}))
                      = Forms(Picked(data, JuiceIndices(data)))

\* C5 witness: the filter has run on the example collection and shows one
\* Fresh item and two juice variants
C5_Witness ==
    /\ FilterRan
    /\ Apples \in DOMAIN slice
    /\ Forms(slice[Apples]) = ExampleForms
    /\ Len(OfKind(out, {"fresh"})) = 1
    /\ Forms(OfKind(out, {"juice"})) = <<"Apple Juice", "Juice Concentrate">>

\* what _filter_by_form has to say of an item: the kind of line, the form,
\* the optional price
Item(kind, d) == <<kind, d.form, d.price_per_cup_equivalent>>
Items(kind, data) == [i \in DOMAIN data |-> Item(kind, data[i])]

\* what a line of _filter_by_form says
Said(lines) ==
    [i \in DOMAIN lines |-> <<lines[i].kind, lines[i].form, Some(lines[i].args[1])>>]

FilterOutput == Said(OfKind(out, {"fresh", "count", "juice"}))

IsPrefix(s, t) == Len(s) <= Len(t) /\ s = SubSeq(t, 1, Len(s))

\* C6 as stated: a call of _filter_by_form that returns has reported the count
\* of the Fresh sequence and the count of the Juice sequence, and one line per
\* item of each.  Taken where both sequences have items.
C6_CountAndLinesForEach ==
    (/\ FilterRan
     /\ err = NoError
     /\ Apples \in DOMAIN slice
     /\ FreshIndices(slice[Apples]) # {}
     /\ JuiceIndices(slice[Apples]) # {}) =>
        LET data == slice[Apples]
            fresh == Picked(data, FreshIndices(data))
            juice == Picked(data, JuiceIndices(data))
            counts == OfKind(out, {"count"})
        IN  /\ [i \in DOMAIN counts |-> counts[i].args[1]] = <<Len(fresh), Len(juice)>>
            /\ Len(OfKind(out, {"fresh"})) = Len(fresh)
            /\ Len(OfKind(out, {"juice"})) = Len(juice)

\* C6 amended: a call of _filter_by_form on a slice with Apples emits one line
\* per item of the Fresh sequence and no count for it; then, only if the Juice
\* sequence is not empty, one line with its count and one line per item of it;
\* the output ends before the first item whose price_per_cup_equivalent is
\* null, with a TypeError, and is complete otherwise.
C6_FilterReport ==
    (FilterRan /\ Apples \in DOMAIN slice) =>
        LET data == slice[Apples]
            fresh == Picked(data, FreshIndices(data))
            juice == Picked(data, JuiceIndices(data))
            want == Items("fresh", fresh)
                    \o (IF juice = <<>> THEN <<>>
                        ELSE <<<<"count", "", Some(Len(juice))>>>>)
                    \o Items("juice", juice)
            got == FilterOutput
        IN  /\ IsPrefix(got, want)
            /\ \A i \in DOMAIN got : got[i][3] # None
            /\ IF err = NoError THEN got = want
               ELSE Len(got) < Len(want) /\ want[Len(got) + 1][3] = None

\* C6 witness: a filter that returned after one Fresh line, the count of two
\* juice variants and their two lines
C6_Witness ==
    /\ phase = "processed"
    /\ Called("_filter_by_form")
    /\ [i \in DOMAIN FilterOutput |-> FilterOutput[i][1]]
           = <<"fresh", "count", "juice", "juice">>

----------------------------------------------------------------------------
(* The gap map *)

InitializeStep == phase = "constructed" /\ phase' = "idle"

SameEntry(S) ==
    /\ S \in DOMAIN last_data_time <=> S \in DOMAIN last_data_time'
    /\ S \in DOMAIN last_data_time => last_data_time'[S] = last_data_time[S]

\* how an on_data step leaves the entry of S
Tracked(S) ==
    IF S \in DOMAIN slice
    THEN S \in DOMAIN last_data_time' /\ last_data_time'[S] = time
    ELSE SameEntry(S)

\* C8 as stated: the map is empty after initialize, and an on_data step sets
\* the entry of every subscribed symbol its slice contains to the time of the
\* step and leaves the entry of every other subscribed symbol as it was.
C8_EverySymbolTracked ==
    [][/\ InitializeStep => last_data_time' = EmptyMap
       /\ OnDataStep => \A S \in Symbols : Tracked(S)]_vars

\* C8 amended: the map is empty after initialize; an on_data step sets the
\* entry of Strawberries to the time of the step if its slice contains
\* Strawberries and leaves it as it was otherwise; Apples and Broccoli never
\* have an entry; no other step changes the map.
C8_StrawberriesTracked ==
    [][/\ InitializeStep => last_data_time' = EmptyMap
       /\ OnDataStep => Tracked(Strawberries)
       /\ DOMAIN last_data_time' \subseteq {Strawberries}
       /\ ~(InitializeStep \/ OnDataStep) => last_data_time' = last_data_time]_vars

\* C8 witness: a step without Strawberries has kept the time of an earlier
\* step, though the slice holds Apples
C8_Witness ==
    /\ Processed
    /\ Apples \in DOMAIN slice
    /\ Strawberries \notin DOMAIN slice
    /\ Strawberries \in DOMAIN last_data_time
    /\ last_data_time[Strawberries] < time

----------------------------------------------------------------------------
\* C9: on_end_of_algorithm emits exactly one line, the final summary, and
\* leaves the gap map and the three subscription handles as they were.
C9_EndOfAlgorithmFrame ==
    [][(phase # "ended" /\ phase' = "ended") =>
          /\ Len(out') = 1
          /\ out'[1].kind = "summary"
          /\ out'[1].args = <<cash>>
          /\ script' = script]_vars

\* C9 witness: the algorithm ended after a step that recorded Strawberries
C9_Witness ==
    /\ phase = "ended"
    /\ Strawberries \in DOMAIN last_data_time
    /\ Len(out) = 1

----------------------------------------------------------------------------
(* Order of the output of one step *)

Rank(l) ==
    CASE l.kind = "gap" -> 1
      [] l.kind = "price" -> 2
      [] l.kind \in {"header", "retail", "yield", "cup", "percup"} -> 3
      [] l.kind = "compare" -> 4
      [] l.kind = "fresh" -> 5
      [] l.kind = "count" -> 6
      [] l.kind = "juice" -> 7
      [] OTHER -> 0

About(l) ==
    CASE Rank(l) \in {1, 2, 4} -> Strawberries
      [] Rank(l) = 3 -> Broccoli
      [] Rank(l) \in {5, 6, 7} -> Apples
      [] OTHER -> ""

\* C10: the lines of one on_data step come in the order: Strawberries gap
\* line, Strawberries price lines, Broccoli property lines, Strawberries
\* comparison line, Apples Fresh lines, juice count line, Juice lines; the gap
\* is counted from the time recorded before the step, not from the time of the
\* step; the output of a step holds the lines of that step only.
C10_OutputOrder ==
    [][OnDataStep =>
          /\ \A i, j \in DOMAIN out' : i < j => Rank(out'[i]) <= Rank(out'[j])
          /\ \A i \in DOMAIN out' :
                 /\ Rank(out'[i]) # 0
                 /\ out'[i].sym = About(out'[i])
                 /\ out'[i].kind = "gap" =>
                        /\ Strawberries \in DOMAIN last_data_time
                        /\ WholeDays(out'[i].args[1],
                                     time - last_data_time[Strawberries])
          /\ out = <<>>]_vars

\* C10 witness: a step that emitted every kind of line, after a gap of a day
C10_Witness ==
    /\ phase = "processed"
    /\ {Rank(out[i]) : i \in DOMAIN out} = 1..7
    /\ out[1].kind = "gap" /\ out[1].args = <<1>>

====
